---- MODULE Spec2Model ----
(***************************************************************************)
(* The octree index of the point cloud viewer (src/octree/mod.rs):         *)
(* Octree::new, Octree::get_visible_nodes, Octree::get_nodes_as_binary_blob*)
(*                                                                         *)
(* File names and node ids are sequences of one-character strings.         *)
(* f32 values of the geometry are exact extended rationals <<n, d>>:       *)
(* d > 0 is the rational n/d in lowest terms, <<1,0>> is +inf, <<-1,0>> is *)
(* -inf and <<0,0>> is NaN.  Conversions of integers to f32 and the two    *)
(* f32 divisions whose result is cast back to an integer are rounded to    *)
(* the 24-bit significand of an f32.                                       *)
(***************************************************************************)
EXTENDS Integers, Sequences, FiniteSets, TLC

VARIABLES
    pc,             \* where the caller is: "new", "scan" (in Octree::new), "err" (it
                    \* returned Err), "ready" (the Octree is built), "visit", "visited"
                    \* (in, back from get_visible_nodes), "blob", "blobbed", "bloberr"
                    \* (in, back from get_nodes_as_binary_blob with Ok, with Err),
                    \* "new_panic", "visit_panic", "blob_panic" (the call panicked)
    entries,        \* the directory tree WalkDir enumerates (fixed input)
    meta_json,      \* whether <directory>/meta.json exists (fixed input)
    meta_pb,        \* what <directory>/meta.pb holds (fixed input)
    todo,           \* entries the walk of Octree::new has not yielded yet
    nodes,          \* Octree.nodes: NodeId -> number of points
    bounding_cube,  \* Octree.bounding_cube
    err,            \* the Err value Octree::new returned, or <<>>
    query,          \* arguments of the running get_visible_nodes call
    open,           \* its stack of Nodes to explore
    visible,        \* its Vec<VisibleNode>
    examined,       \* history: ids popped from open by the running call
    requests,       \* argument of the running get_nodes_as_binary_blob call
    ri,             \* index of the next request of its outer loop
    rv,             \* its output buffer
    num_points,     \* its running total
    records         \* history: per request <<start, sized, cursor>>

vars == <<pc, entries, meta_json, meta_pb, todo, nodes, bounding_cube, err,
          query, open, visible, examined, requests, ri, rv, num_points, records>>

octreeVars == <<nodes, bounding_cube>>
fsVars == <<entries, meta_json, meta_pb>>
visitVars == <<query, open, visible, examined>>
blobVars == <<requests, ri, rv, num_points, records>>

---------------------------------------------------------------------------
(* Program constants. *)

CURRENT_VERSION == 6
XYZ_RECORD_BYTES == 12
NUM_BYTES_PER_POINT == 16
MIN_PIXELS_SQ == 120
MIN_PIXELS_SIDE == 12
NUM_CHILDREN == 8
ALPHA == 255
LEGACY_VERSION == 3

---------------------------------------------------------------------------
(* Bounds of the model. *)

MaxRequests == 2     \* longest request list handed to the serializer
MaxExtraFiles == 4   \* optional directory entries present besides the required ones

---------------------------------------------------------------------------
(* Small helpers. *)

Max(a, b) == IF a >= b THEN a ELSE b
Min(a, b) == IF a <= b THEN a ELSE b
Abs(a) == IF a < 0 THEN -a ELSE a
Sign(a) == IF a > 0 THEN 1 ELSE IF a < 0 THEN -1 ELSE 0

RECURSIVE Gcd(_, _)
Gcd(a, b) == IF b = 0 THEN a ELSE Gcd(b, a % b)

RECURSIVE Pow2(_)
Pow2(k) == IF k = 0 THEN 1 ELSE 2 * Pow2(k - 1)

\* floor(log2(k)) for k >= 1
RECURSIVE Log2(_)
Log2(k) == IF k <= 1 THEN 0 ELSE 1 + Log2(k \div 2)

Range(s) == {s[i] : i \in 1..Len(s)}
NoDup(s) == \A i, j \in 1..Len(s) : s[i] = s[j] => i = j

---------------------------------------------------------------------------
(* The directory Octree::new reads.  An entry is what WalkDir yields for   *)
(* one path: name is path.file_name() (<<>> when the path has none, as for *)
(* a directory given as ".."), len is fs::metadata(path).len(), walk_ok is *)
(* whether the walk yields Ok for it and stat_ok whether fs::metadata      *)
(* succeeds (it follows symlinks, so it fails on a dangling one).          *)

Entry(name, kind, len, walk_ok, stat_ok) ==
    [name |-> name, kind |-> kind, len |-> len, walk_ok |-> walk_ok, stat_ok |-> stat_ok]

RootEntry == Entry(<<"o", "c", "t">>, "root", 4096, TRUE, TRUE)
RootEntryDotDot == Entry(<<>>, "root", 4096, TRUE, TRUE)
MetaPbEntry == Entry(<<"m", "e", "t", "a", ".", "p", "b">>, "file", 30, TRUE, TRUE)
MetaJsonEntry == Entry(<<"m", "e", "t", "a", ".", "j", "s", "o", "n">>, "file", 40, TRUE, TRUE)

XYZ == <<".", "x", "y", "z">>
RGB == <<".", "r", "g", "b">>

\* 2^24 + 1 points: the smallest count an f32 cannot hold.
BigCount == Pow2(24) + 1
\* 2^24 + 11 points: an f32 holds it as 2^24 + 12; a multiple of three.
OddCount == Pow2(24) + 11

OptionalEntries ==
    { Entry(<<"r">> \o XYZ, "file", 100 * XYZ_RECORD_BYTES, TRUE, TRUE),
      Entry(<<"r", "7">> \o XYZ, "file", 5 * XYZ_RECORD_BYTES, TRUE, TRUE),
      Entry(<<"r", "7", "0">> \o XYZ, "file", 2 * XYZ_RECORD_BYTES, TRUE, TRUE),
      Entry(<<"r", "3">> \o XYZ, "file", BigCount * XYZ_RECORD_BYTES, TRUE, TRUE),
      Entry(<<"r", "4">> \o XYZ, "file", OddCount * XYZ_RECORD_BYTES, TRUE, TRUE),
      Entry(<<"r">> \o RGB, "file", 300, TRUE, TRUE),
      Entry(<<"x">> \o XYZ, "file", 12, TRUE, TRUE),
      Entry(<<"r", "5">> \o XYZ, "file", 24, TRUE, FALSE),
      Entry(<<"r", "6">> \o XYZ, "file", 24, FALSE, TRUE) }

\* file is "missing" (File::open fails), "garbled" (the parse fails) or "ok"
MetaPb(file, version) ==
    [file |-> file, version |-> version, min |-> <<-8, -8, -8>>, edge_length |-> 16]
MetaPbChoices ==
    { MetaPb("missing", 0), MetaPb("garbled", 0), MetaPb("ok", 5), MetaPb("ok", CURRENT_VERSION) }

StartsWith(s, p) == Len(s) >= Len(p) /\ SubSeq(s, 1, Len(p)) = p
EndsWith(s, p) == Len(s) >= Len(p) /\ SubSeq(s, Len(s) - Len(p) + 1, Len(s)) = p

\* Path::file_stem: the name up to its last '.', the whole name when it has
\* no '.' or only a leading one.
FileStem(name) ==
    LET dots == {i \in 1..Len(name) : name[i] = "."}
        last == IF dots = {} THEN 0 ELSE CHOOSE i \in dots : \A j \in dots : j <= i
    IN IF last <= 1 THEN name ELSE SubSeq(name, 1, last - 1)

\* NodeId::from_string keeps the string it is given.
NodeIdFromString(s) == s

\* The `continue` of the name filter.
SkipsName(file_name_str) ==
    ~StartsWith(file_name_str, <<"r">>) /\ EndsWith(file_name_str, XYZ)

\* HashMap::insert
MapInsert(map, k, v) == [x \in DOMAIN map \cup {k} |-> IF x = k THEN v ELSE map[x]]
EmptyMap == [x \in {} |-> 0]

Cube(min, edge_length) == [min |-> min, edge_length |-> edge_length]
NoCube == Cube(<<0, 0, 0>>, 0)

---------------------------------------------------------------------------
(* Octree::new *)

\* Lines 88-109: the checks of the metadata, up to the start of the walk.
NewOpen ==
    /\ pc = "new"
    /\ UNCHANGED <<fsVars, visitVars, blobVars>>
    /\ IF meta_json
       THEN /\ err' = <<"InvalidVersion", LEGACY_VERSION>>
            /\ pc' = "err"
            /\ UNCHANGED <<todo, octreeVars>>
       ELSE IF meta_pb.file = "missing"
       THEN /\ err' = <<"Io", 0>>
            /\ pc' = "err"
            /\ UNCHANGED <<todo, octreeVars>>
       ELSE IF meta_pb.file = "garbled"
       THEN /\ err' = <<"Could not parse meta.pb", 0>>
            /\ pc' = "err"
            /\ UNCHANGED <<todo, octreeVars>>
       ELSE IF meta_pb.version # CURRENT_VERSION
       THEN /\ err' = <<"InvalidVersion", meta_pb.version>>
            /\ pc' = "err"
            /\ UNCHANGED <<todo, octreeVars>>
       ELSE /\ bounding_cube' = Cube(meta_pb.min, meta_pb.edge_length)
            /\ nodes' = EmptyMap
            /\ todo' = entries
            /\ pc' = "scan"
            /\ err' = <<>>

\* Lines 110-127: one iteration of the walk.  WalkDir yields the directory
\* itself first and its contents in the order the file system lists them.
ScanEntry(e) ==
    /\ pc = "scan"
    /\ e \in todo
    /\ (\E r \in todo : r.kind = "root") => e.kind = "root"
    /\ todo' = todo \ {e}
    /\ UNCHANGED <<fsVars, bounding_cube, err, visitVars, blobVars>>
    /\ IF ~e.walk_ok
       THEN UNCHANGED <<pc, nodes>>                     \* filter_map(|e| e.ok())
       ELSE IF e.name = <<>>
       THEN UNCHANGED <<pc, nodes>>                     \* file_name().is_none()
       ELSE IF SkipsName(e.name)
       THEN UNCHANGED <<pc, nodes>>
       ELSE IF ~e.stat_ok
       THEN pc' = "new_panic" /\ UNCHANGED nodes            \* fs::metadata(path).unwrap()
       ELSE /\ nodes' = MapInsert(nodes, NodeIdFromString(FileStem(e.name)),
                                  e.len \div XYZ_RECORD_BYTES)
            /\ UNCHANGED pc

\* Lines 129-133: the walk is over, Ok(Octree) is returned.
ScanDone ==
    /\ pc = "scan"
    /\ todo = {}
    /\ pc' = "ready"
    /\ UNCHANGED <<fsVars, todo, octreeVars, err, visitVars, blobVars>>

---------------------------------------------------------------------------
(* f32 arithmetic on extended rationals. *)

NaN == <<0, 0>>
PosInf == <<1, 0>>
NegInf == <<-1, 0>>
I32_MAX == 2147483647

FNorm(n, d) ==
    IF d = 0 THEN <<Sign(n), 0>>
    ELSE LET g == Gcd(Abs(n), Abs(d))
         IN <<(Sign(d) * n) \div g, Abs(d) \div g>>

FInt(k) == <<k, 1>>
IsNaN(a) == a = NaN
IsFinite(a) == a[2] # 0
FNeg(a) == <<-a[1], a[2]>>
FMul(a, b) == FNorm(a[1] * b[1], a[2] * b[2])
FAdd(a, b) ==
    IF IsNaN(a) \/ IsNaN(b) THEN NaN
    ELSE IF ~IsFinite(a) /\ ~IsFinite(b) THEN (IF a = b THEN a ELSE NaN)
    ELSE IF ~IsFinite(a) THEN a
    ELSE IF ~IsFinite(b) THEN b
    ELSE FNorm(a[1] * b[2] + b[1] * a[2], a[2] * b[2])
FSub(a, b) == FAdd(a, FNeg(b))
\* 1. / a; a zero divisor computed from the matrix is +0.0
FRecip(a) ==
    IF IsNaN(a) THEN NaN
    ELSE IF ~IsFinite(a) THEN FInt(0)
    ELSE IF a[1] = 0 THEN PosInf
    ELSE FNorm(a[2], a[1])
FDiv(a, b) ==
    IF IsFinite(b) /\ b[1] = 0
    THEN (IF IsNaN(a) \/ (IsFinite(a) /\ a[1] = 0) THEN NaN ELSE <<Sign(a[1]), 0>>)
    ELSE FMul(a, FRecip(b))
\* a < b on f32: false when either side is NaN
FLt(a, b) ==
    IF IsNaN(a) \/ IsNaN(b) THEN FALSE
    ELSE IF ~IsFinite(a) /\ ~IsFinite(b) THEN a[1] < b[1]
    ELSE a[1] * b[2] < b[1] * a[2]
\* f32::min and f32::max return the other operand when one is NaN
FMin(a, b) == IF IsNaN(a) THEN b ELSE IF IsNaN(b) THEN a ELSE IF FLt(b, a) THEN b ELSE a
FMax(a, b) == IF IsNaN(a) THEN b ELSE IF IsNaN(b) THEN a ELSE IF FLt(a, b) THEN b ELSE a

\* k as f32, k >= 0: round to nearest, ties to even, on a 24-bit significand.
AsF32(k) ==
    IF k < Pow2(24) THEN k
    ELSE LET u == Pow2(Log2(k) - 23)
             base == k - (k % u)
             rem == k % u
         IN IF 2 * rem > u THEN base + u
            ELSE IF 2 * rem < u THEN base
            ELSE IF (base \div u) % 2 = 0 THEN base ELSE base + u

\* The f32 nearest to n/d (n >= 0, d > 0), given as <<lo, hi>>: its floor and
\* its ceiling.  k + r/d is the exact quotient; ulp(k) = 2^(e-23).
F32Quot(n, d) ==
    LET k == n \div d
        r == n % d
        e == Log2(k)
    IN IF r = 0 THEN <<AsF32(k), AsF32(k)>>
       ELSE IF k = 0
       THEN (IF d - r <= d \div Pow2(25) THEN <<1, 1>> ELSE <<0, 1>>)
       ELSE IF e <= 22
       THEN (IF d - r <= d \div Pow2(24 - e) THEN <<k + 1, k + 1>>
             ELSE IF r <= d \div Pow2(24 - e) THEN <<k, k>>
             ELSE <<k, k + 1>>)
       ELSE IF e = 23
       THEN (IF r > d - r THEN <<k + 1, k + 1>>
             ELSE IF r < d - r THEN <<k, k>>
             ELSE IF k % 2 = 0 THEN <<k, k>> ELSE <<k + 1, k + 1>>)
       ELSE LET u == Pow2(e - 23)
                base == k - (k % u)
                rem == k % u
            IN IF 2 * rem >= u THEN <<base + u, base + u>> ELSE <<base, base>>

---------------------------------------------------------------------------
(* Geometry.  A Matrix4f m is a tuple of four columns, m[c][r] in the      *)
(* source is m[c + 1][r + 1] here; its entries and the corners of every    *)
(* cube are integers.  Vectors are tuples of f32 values.                   *)

Ortho(s, tx) == << <<s, 0, 0, 0>>, <<0, s, 0, 0>>, <<0, 0, s, 0>>, <<tx, 0, 0, 8>> >>
Perspective(c) == << <<4, 0, 0, 0>>, <<0, 4, 0, 0>>, <<0, 0, 0, -1>>, <<0, 0, 0, c>> >>

MatFit == Ortho(1, 0)             \* the root cube exactly fills the viewport
MatSide == Ortho(1, -12)          \* only x >= 4 is inside
MatAway == Ortho(1, 100)          \* the whole cube is outside
MatCentre == Perspective(0)       \* camera in the centre of the root cube
MatFace == Perspective(8)         \* camera on a face of the root cube

Viewport(m, w, h) == [m |-> m, width |-> w, height |-> h]
Views ==
    { Viewport(MatFit, 32, 32), Viewport(MatFit, 64, 48),
      Viewport(MatFit, 16, 8), Viewport(MatFit, 388, 1028),
      Viewport(MatSide, 32, 32), Viewport(MatAway, 32, 32),
      Viewport(MatCentre, 32, 32), Viewport(MatFace, 0, 32) }
Queries ==
    { [m |-> v.m, width |-> v.width, height |-> v.height, use_lod |-> l] :
        v \in Views, l \in {"No", "Yes"} }
NoQuery == [m |-> MatFit, width |-> 0, height |-> 0, use_lod |-> "No"]

\* m[0][r]*p.x + m[1][r]*p.y + m[2][r]*p.z + m[3][r], summed left to right
Row(m, r, p) ==
    FAdd(FAdd(FAdd(FMul(FInt(m[1][r]), p[1]), FMul(FInt(m[2][r]), p[2])),
              FMul(FInt(m[3][r]), p[3])),
         FInt(m[4][r]))

project(m, p) ==
    LET d == FRecip(Row(m, 4, p))
    IN <<FMul(Row(m, 1, p), d), FMul(Row(m, 2, p), d), FMul(Row(m, 3, p), d)>>

\* The corners of a cube in the order of size_in_pixels.
Corners(cube) ==
    LET lo == cube.min
        hi == <<cube.min[1] + cube.edge_length, cube.min[2] + cube.edge_length,
                cube.min[3] + cube.edge_length>>
    IN << <<lo[1], lo[2], lo[3]>>, <<hi[1], lo[2], lo[3]>>,
          <<lo[1], hi[2], lo[3]>>, <<hi[1], hi[2], lo[3]>>,
          <<lo[1], lo[2], hi[3]>>, <<hi[1], lo[2], hi[3]>>,
          <<lo[1], hi[2], hi[3]>>, <<hi[1], hi[2], hi[3]>> >>

\* Cuboid::new and Cuboid::update over a list of points: the componentwise
\* minimum and maximum.  The start values stand for +-f32::MAX; every list
\* folded here has a non-NaN value on each axis, which replaces them.
RECURSIVE CuboidOf(_, _)
CuboidOf(points, i) ==
    IF i = 0 THEN [min |-> <<PosInf, PosInf, PosInf>>, max |-> <<NegInf, NegInf, NegInf>>]
    ELSE LET box == CuboidOf(points, i - 1)
             p == points[i]
         IN [min |-> <<FMin(box.min[1], p[1]), FMin(box.min[2], p[2]), FMin(box.min[3], p[3])>>,
             max |-> <<FMax(box.max[1], p[1]), FMax(box.max[2], p[2]), FMax(box.max[3], p[3])>>]

size_in_pixels(bounding_cube_, matrix, width, height) ==
    LET cs == Corners(bounding_cube_)
        projected == [i \in 1..8 |-> project(matrix, <<FInt(cs[i][1]), FInt(cs[i][2]), FInt(cs[i][3])>>)]
        box == CuboidOf(projected, 8)
    IN <<FDiv(FMul(FSub(box.max[1], box.min[1]), FInt(width)), FInt(2)),
         FDiv(FMul(FSub(box.max[2], box.min[2]), FInt(height)), FInt(2))>>

\* Frustum::from_matrix: the six clip planes w +- x, w +- y, w +- z >= 0.
FrustumPlanes(m) ==
    LET row(r) == <<m[1][r], m[2][r], m[3][r], m[4][r]>>
        plus(a, b) == <<a[1] + b[1], a[2] + b[2], a[3] + b[3], a[4] + b[4]>>
        minus(a, b) == <<a[1] - b[1], a[2] - b[2], a[3] - b[3], a[4] - b[4]>>
    IN { plus(row(4), row(i)) : i \in 1..3 } \cup { minus(row(4), row(i)) : i \in 1..3 }

\* Frustum::intersects: no plane has all eight corners of the cube outside.
Intersects(planes, cube) ==
    \A pl \in planes :
        \E i \in 1..8 :
            LET c == Corners(cube)[i]
            IN pl[1] * c[1] + pl[2] * c[2] + pl[3] * c[3] + pl[4] >= 0

---------------------------------------------------------------------------
(* Nodes. *)

Digit(i) == <<"0", "1", "2", "3", "4", "5", "6", "7">>[i + 1]
Node(id, cube) == [id |-> id, bounding_cube |-> cube]
RootId == <<"r">>
root_with_bounding_cube(cube) == Node(RootId, cube)

\* Node::get_child: the id gains the child's digit, the cube is the octant
\* the three bits of the index select.
get_child(node, child_index) ==
    LET half == node.bounding_cube.edge_length \div 2
        min == node.bounding_cube.min
    IN Node(Append(node.id, Digit(child_index)),
            Cube(<<min[1] + (IF (child_index \div 4) % 2 = 1 THEN half ELSE 0),
                   min[2] + (IF (child_index \div 2) % 2 = 1 THEN half ELSE 0),
                   min[3] + (IF child_index % 2 = 1 THEN half ELSE 0)>>,
                 half))

---------------------------------------------------------------------------
(* Octree::get_visible_nodes *)

VisibleNode(id, level_of_detail_, pixels) ==
    [id |-> id, level_of_detail |-> level_of_detail_, pixels |-> pixels]

\* IsSkipped without the frustum test.
IsSkippedNoFrustum(node, m) == node.id \notin DOMAIN nodes

\* Line 149: the node has no points stored or lies outside the frustum.
IsSkipped(node, m) ==
    \/ node.id \notin DOMAIN nodes
    \/ ~Intersects(FrustumPlanes(m), node.bounding_cube)

\* Lines 158-164
TooSmall(pixels) ==
    \/ FLt(pixels[1], FInt(MIN_PIXELS_SIDE))
    \/ FLt(pixels[2], FInt(MIN_PIXELS_SIDE))
    \/ FLt(FMul(pixels[1], pixels[2]), FInt(MIN_PIXELS_SQ))

\* (x / y) as i32 for an integer-valued x >= 0: the f32 quotient, truncated,
\* NaN to 0, saturated.
QuotAsI32(x, y) ==
    IF ~IsFinite(y) THEN 0
    ELSE IF y[1] = 0 THEN (IF x = 0 THEN 0 ELSE I32_MAX)
    ELSE IF y[1] > 0 THEN Min(I32_MAX, F32Quot(x * y[2], y[1])[1])
    ELSE -Min(I32_MAX, F32Quot(x * y[2], -y[1])[1])

\* level_of_detail without the max-with-1 guard.
LodNoGuard(use_lod, num_points_, visible_pixels) ==
    IF use_lod = "No" THEN 1
    ELSE QuotAsI32(AsF32(num_points_), FDiv(visible_pixels, FInt(4)))

\* Lines 166-172
level_of_detail(use_lod, num_points_, visible_pixels) ==
    IF use_lod = "No" THEN 1
    ELSE Max(1, QuotAsI32(AsF32(num_points_), FDiv(visible_pixels, FInt(4))))

\* Lines 174-176: the children in the order they are pushed.
Children(node) == [i \in 1..NUM_CHILDREN |-> get_child(node, i - 1)]

\* Explore descending through a node that has no points stored.
ExploreThroughMissing(node, q) ==
    IF node.id \notin DOMAIN nodes THEN [push |-> Children(node), found |-> <<>>]
    ELSE IF IsSkipped(node, q.m) THEN [push |-> <<>>, found |-> <<>>]
    ELSE LET pixels == size_in_pixels(node.bounding_cube, q.m, q.width, q.height)
         IN IF TooSmall(pixels) THEN [push |-> <<>>, found |-> <<>>]
            ELSE [push |-> Children(node),
                  found |-> <<VisibleNode(node.id,
                                          level_of_detail(q.use_lod, nodes[node.id],
                                                          FMul(pixels[1], pixels[2])),
                                          pixels)>>]

\* Explore pushing the children of a node that is too small on screen.
ExplorePushSmall(node, q) ==
    IF IsSkipped(node, q.m) THEN [push |-> <<>>, found |-> <<>>]
    ELSE LET pixels == size_in_pixels(node.bounding_cube, q.m, q.width, q.height)
         IN IF TooSmall(pixels) THEN [push |-> Children(node), found |-> <<>>]
            ELSE [push |-> Children(node),
                  found |-> <<VisibleNode(node.id,
                                          level_of_detail(q.use_lod, nodes[node.id],
                                                          FMul(pixels[1], pixels[2])),
                                          pixels)>>]

\* Lines 148-182: the body of the loop for the node popped; what it pushes
\* on open and what it appends to visible.
Explore(node, q) ==
    IF IsSkipped(node, q.m) THEN [push |-> <<>>, found |-> <<>>]
    ELSE LET pixels == size_in_pixels(node.bounding_cube, q.m, q.width, q.height)
         IN IF TooSmall(pixels) THEN [push |-> <<>>, found |-> <<>>]
            ELSE [push |-> Children(node),
                  found |-> <<VisibleNode(node.id,
                                          level_of_detail(q.use_lod, nodes[node.id],
                                                          FMul(pixels[1], pixels[2])),
                                          pixels)>>]

Area(v) == FMul(v.pixels[1], v.pixels[2])

\* SortVisible leaving the list in traversal order.
SortNone(v) == v

\* Lines 185-189: the stable sort, a before b when size_b < size_a.
RECURSIVE SortVisible(_)
SortVisible(v) ==
    IF Len(v) <= 1 THEN v
    ELSE LET sorted == SortVisible(SubSeq(v, 1, Len(v) - 1))
             x == v[Len(v)]
             k == Cardinality({j \in 1..Len(sorted) : ~FLt(Area(sorted[j]), Area(x))})
         IN SubSeq(sorted, 1, k) \o <<x>> \o SubSeq(sorted, k + 1, Len(sorted))

\* Line 188: partial_cmp(..).unwrap() panics when a compared area is NaN;
\* the sort compares every element once the list has two.
SortPanics(v) == Len(v) >= 2 /\ \E i \in 1..Len(v) : IsNaN(Area(v[i]))

\* Lines 136-145
StartVisit(q) ==
    /\ pc = "ready"
    /\ pc' = "visit"
    /\ query' = q
    /\ open' = <<root_with_bounding_cube(bounding_cube)>>
    /\ visible' = <<>>
    /\ examined' = <<>>
    /\ UNCHANGED <<fsVars, todo, octreeVars, err, blobVars>>

\* Lines 146-183: one iteration of the loop.
ExploreNode ==
    /\ pc = "visit"
    /\ open # <<>>
    /\ LET node_to_explore == open[Len(open)]
           step == Explore(node_to_explore, query)
       IN /\ open' = SubSeq(open, 1, Len(open) - 1) \o step.push
          /\ visible' = visible \o step.found
          /\ examined' = Append(examined, node_to_explore.id)
    /\ UNCHANGED <<pc, fsVars, todo, octreeVars, err, query, blobVars>>

\* Lines 185-190: the loop is over; the list is sorted and returned.
FinishVisit ==
    /\ pc = "visit"
    /\ open = <<>>
    /\ IF SortPanics(visible)
       THEN pc' = "visit_panic" /\ UNCHANGED visible
       ELSE pc' = "visited" /\ visible' = SortVisible(visible)
    /\ UNCHANGED <<fsVars, todo, octreeVars, err, query, open, examined, blobVars>>

---------------------------------------------------------------------------
(* The point source.  NodeIterator::from_disk opens the node's file and    *)
(* yields its points; a node without a readable file is an error.  Point   *)
(* idx of a node has a position and a colour that depend on the node and   *)
(* on idx.                                                                 *)

\* f32 values by their IEEE 754 fields: 0.0, 1.0, -2.0, 0.5, 1.5
F32Values ==
    << [sign |-> 0, exp |-> 0, mant |-> 0], [sign |-> 0, exp |-> 127, mant |-> 0],
       [sign |-> 1, exp |-> 128, mant |-> 0], [sign |-> 0, exp |-> 126, mant |-> 0],
       [sign |-> 0, exp |-> 127, mant |-> 4194304] >>

PointAt(id, idx) ==
    [position |-> <<F32Values[((idx % 7) % 5) + 1], F32Values[((idx + Len(id)) % 3) + 1],
                    F32Values[((idx \div 10) % 5) + 1]>>,
     r |-> (37 * idx + Len(id)) % 256,
     g |-> (11 * idx + 1) % 256,
     b |-> 255 - (idx % 256)]

from_disk(id) ==
    LET files == {e \in entries : e.kind = "file" /\ e.name = id \o XYZ /\ e.walk_ok /\ e.stat_ok}
    IN IF files = {} THEN [ok |-> FALSE, len |-> 0]
       ELSE [ok |-> TRUE, len |-> (CHOOSE e \in files : TRUE).len \div XYZ_RECORD_BYTES]

---------------------------------------------------------------------------
(* Octree::get_nodes_as_binary_blob *)

NodesToBlob(id, level_of_detail_) == [id |-> id, level_of_detail |-> level_of_detail_]

\* The requests a caller makes: strides are positive.
RequestPool ==
    { NodesToBlob(<<"r">>, 40), NodesToBlob(<<"r", "7">>, 1), NodesToBlob(<<"r", "3">>, 1),
      NodesToBlob(<<"r", "4">>, OddCount \div 3) }

RECURSIVE SeqsUpTo(_, _)
SeqsUpTo(S, n) ==
    IF n = 0 THEN {<<>>}
    ELSE LET shorter == SeqsUpTo(S, n - 1)
         IN shorter \cup {Append(q, x) : q \in {t \in shorter : Len(t) = n - 1}, x \in S}

RequestLists == SeqsUpTo(RequestPool, MaxRequests)

\* LittleEndian::write_u32
U32LE(v) == <<v % 256, (v \div 256) % 256, (v \div 65536) % 256, (v \div 16777216) % 256>>

\* LittleEndian::write_f32: the IEEE 754 bits, least significant byte first
F32LE(f) ==
    <<f.mant % 256, (f.mant \div 256) % 256,
      (f.exp % 2) * 128 + (f.mant \div 65536), f.sign * 128 + (f.exp \div 2)>>

\* Lines 200-201: (points.len() as f32 / level_of_detail as f32).ceil() as usize
num_points_for_lod(len, lod) == F32Quot(AsF32(len), AsF32(lod))[2]

\* Lines 211-214 and 224-227: the indices the loops do not skip.
Selected(len, lod) ==
    LET count == IF len = 0 THEN 0 ELSE (len - 1) \div lod + 1
    IN [j \in 1..count |-> (j - 1) * lod]
NumSelected(len, lod) == IF len = 0 THEN 0 ELSE (len - 1) \div lod + 1

RECURSIVE Flatten(_)
Flatten(ss) == IF ss = <<>> THEN <<>> ELSE Head(ss) \o Flatten(Tail(ss))

Zeros(n) == [i \in 1..n |-> 0]

\* Lines 215-220 for each index of the first loop.
PutPositions(id, len, lod) ==
    LET sel == Selected(len, lod)
    IN Flatten([j \in 1..Len(sel) |->
                   F32LE(PointAt(id, sel[j]).position[1]) \o
                   F32LE(PointAt(id, sel[j]).position[2]) \o
                   F32LE(PointAt(id, sel[j]).position[3])])

\* Lines 228-235 for each index of the second loop.
PutColors(id, len, lod) ==
    LET sel == Selected(len, lod)
    IN Flatten([j \in 1..Len(sel) |->
                   <<PointAt(id, sel[j]).r, PointAt(id, sel[j]).g, PointAt(id, sel[j]).b, ALPHA>>])

\* Lines 204-236: the bytes a request adds to rv.  resize appends
\* 4 + 16 * sized zero bytes; the length is written first, the positions
\* follow, the colours start where the positions stopped.  A write at or
\* past the end of rv panics (overrun); bytes never written stay zero.
Written(len, lod) == 4 + 12 * NumSelected(len, lod) + 4 * NumSelected(len, lod)
Overruns(len, lod) == Written(len, lod) > 4 + NUM_BYTES_PER_POINT * num_points_for_lod(len, lod)
RecordBytes(id, len, lod) ==
    LET sized == num_points_for_lod(len, lod)
    IN U32LE(sized * NUM_BYTES_PER_POINT) \o PutPositions(id, len, lod) \o PutColors(id, len, lod)
       \o Zeros(4 + NUM_BYTES_PER_POINT * sized - Written(len, lod))

\* Lines 193-197
StartBlob(reqs) ==
    /\ pc = "ready"
    /\ pc' = "blob"
    /\ requests' = reqs
    /\ ri' = 1
    /\ rv' = <<>>
    /\ num_points' = 0
    /\ records' = <<>>
    /\ UNCHANGED <<fsVars, todo, octreeVars, err, visitVars>>

\* Lines 198-237: one iteration of the outer loop.
BlobNode ==
    /\ pc = "blob"
    /\ ri <= Len(requests)
    /\ LET node == requests[ri]
           points == from_disk(node.id)
       IN IF ~points.ok
          THEN /\ pc' = "bloberr"                       \* the ? of line 199
               /\ rv' = <<>>
               /\ num_points' = 0
               /\ UNCHANGED <<ri, records>>
          ELSE IF Overruns(points.len, node.level_of_detail)
          THEN /\ pc' = "blob_panic"
               /\ rv' = <<>>
               /\ num_points' = 0
               /\ UNCHANGED <<ri, records>>
          ELSE /\ rv' = rv \o RecordBytes(node.id, points.len, node.level_of_detail)
               /\ num_points' = num_points + num_points_for_lod(points.len, node.level_of_detail)
               /\ records' = Append(records,
                                    [start |-> Len(rv),
                                     sized |-> num_points_for_lod(points.len, node.level_of_detail),
                                     cursor |-> Len(rv) + Written(points.len, node.level_of_detail)])
               /\ ri' = ri + 1
               /\ UNCHANGED pc
    /\ UNCHANGED <<fsVars, todo, octreeVars, err, visitVars, requests>>

\* Lines 238-239: the assertion and the return.
FinishBlob ==
    /\ pc = "blob"
    /\ ri > Len(requests)
    /\ pc' = IF 4 * Len(requests) + NUM_BYTES_PER_POINT * num_points = Len(rv)
             THEN "blobbed" ELSE "blob_panic"
    /\ UNCHANGED <<fsVars, todo, octreeVars, err, visitVars, blobVars>>

\* The caller takes the result; the Octree is ready for the next call.
Return ==
    /\ pc \in {"visited", "blobbed", "bloberr"}
    /\ pc' = "ready"
    /\ query' = NoQuery
    /\ open' = <<>>
    /\ visible' = <<>>
    /\ examined' = <<>>
    /\ requests' = <<>>
    /\ ri' = 0
    /\ rv' = <<>>
    /\ num_points' = 0
    /\ records' = <<>>
    /\ UNCHANGED <<fsVars, todo, octreeVars, err>>

---------------------------------------------------------------------------
(* The specification. *)

\* The directories handed to Octree::new: the directory itself (given by
\* name, or as ".." when it holds at most one optional entry) and up to
\* MaxExtraFiles of the optional entries.
Directories ==
    { {root} \cup extra :
        root \in {RootEntry, RootEntryDotDot},
        extra \in {S \in SUBSET OptionalEntries : Cardinality(S) <= MaxExtraFiles} }
    \ { dir \in SUBSET (OptionalEntries \cup {RootEntryDotDot}) : Cardinality(dir) > 2 }

Init ==
    /\ pc = "new"
    /\ meta_json \in BOOLEAN
    /\ meta_pb \in MetaPbChoices
    /\ \E dir \in Directories :
          entries = dir
                    \cup (IF meta_pb.file = "missing" THEN {} ELSE {MetaPbEntry})
                    \cup (IF meta_json THEN {MetaJsonEntry} ELSE {})
    /\ todo = {}
    /\ nodes = EmptyMap
    /\ bounding_cube = NoCube
    /\ err = <<>>
    /\ query = NoQuery
    /\ open = <<>>
    /\ visible = <<>>
    /\ examined = <<>>
    /\ requests = <<>>
    /\ ri = 0
    /\ rv = <<>>
    /\ num_points = 0
    /\ records = <<>>

Next ==
    \/ NewOpen
    \/ \E e \in todo : ScanEntry(e)
    \/ ScanDone
    \/ \E q \in Queries : StartVisit(q)
    \/ ExploreNode
    \/ FinishVisit
    \/ \E reqs \in RequestLists : StartBlob(reqs)
    \/ BlobNode
    \/ FinishBlob
    \/ Return

Spec == Init /\ [][Next]_vars

---------------------------------------------------------------------------
(* Properties. *)

VisibleIds == {visible[i].id : i \in 1..Len(visible)}
Parent(id) == SubSeq(id, 1, Len(id) - 1)
InVisit == pc \in {"visit", "visited", "visit_panic"}
InBlob == pc \in {"blob", "blobbed", "bloberr", "blob_panic"}
DigitValue(ch) == CHOOSE i \in 0..(NUM_CHILDREN - 1) : Digit(i) = ch
IndexIn(s, x) == CHOOSE i \in 1..Len(s) : s[i] = x

\* The bounding cube of a node id, derived from the root cube along its path.
RECURSIVE CubeOfId(_)
CubeOfId(id) ==
    IF Len(id) = 1 THEN bounding_cube
    ELSE get_child(Node(Parent(id), CubeOfId(Parent(id))), DigitValue(id[Len(id)])).bounding_cube

\* C1: the visible set is closed under parents: every id in it other than
\* the root has its parent in it, and no id in it descends from a node the
\* traversal examined and pruned.
C1_ClosedUnderParents ==
    InVisit =>
        /\ \A i \in 1..Len(visible) :
              visible[i].id = RootId \/ Parent(visible[i].id) \in VisibleIds
        /\ \A j \in 1..Len(examined) :
              examined[j] \notin VisibleIds =>
                  \A i \in 1..Len(visible) : ~StartsWith(visible[i].id, examined[j])

\* A call returned several nodes and pruned a node that has points stored.
C1_Witness ==
    /\ pc = "visited"
    /\ Len(visible) >= 3
    /\ \E j \in 1..Len(examined) :
          examined[j] \in DOMAIN nodes /\ examined[j] \notin VisibleIds

\* C2: every id in the visible set has an entry in the node mapping and a
\* bounding cube that intersects the frustum of the query's matrix.
C2_NoFalsePositives ==
    InVisit =>
        \A i \in 1..Len(visible) :
            /\ visible[i].id \in DOMAIN nodes
            /\ Intersects(FrustumPlanes(query.m), CubeOfId(visible[i].id))

\* A call returned nodes and rejected a stored node that is outside the frustum.
C2_Witness ==
    /\ pc = "visited"
    /\ Len(visible) >= 2
    /\ \E j \in 1..Len(examined) :
          /\ examined[j] \in DOMAIN nodes
          /\ ~Intersects(FrustumPlanes(query.m), CubeOfId(examined[j]))

\* C3: level_of_detail is at least 1 for every visible node; it is 1 with
\* LOD off, and with LOD on it is max(1, floor(points / (area / 4))) (1 when
\* the area is infinite).
C3_LevelOfDetail ==
    InVisit =>
        \A i \in 1..Len(visible) :
            LET v == visible[i]
                area == Area(v)
            IN /\ v.level_of_detail >= 1
               /\ query.use_lod = "No" => v.level_of_detail = 1
               /\ (query.use_lod = "Yes" /\ IsFinite(area)) =>
                      v.level_of_detail = Max(1, (4 * nodes[v.id] * area[2]) \div area[1])
               /\ (query.use_lod = "Yes" /\ area = PosInf) => v.level_of_detail = 1

\* C3 (amended): level_of_detail is at least 1 for every visible node; it
\* is 1 with LOD off; with LOD on it is within one of
\* max(1, floor(points / (area / 4))) for quotients below 2^22, and equal
\* to it when the count is below 2^24 and area / 4 is a whole number.
C3_LevelOfDetailRounded ==
    InVisit =>
        \A i \in 1..Len(visible) :
            LET v == visible[i]
                area == Area(v)
                exact == Max(1, (4 * nodes[v.id] * area[2]) \div area[1])
            IN /\ v.level_of_detail >= 1
               /\ query.use_lod = "No" => v.level_of_detail = 1
               /\ (query.use_lod = "Yes" /\ IsFinite(area) /\ exact < Pow2(22)) =>
                      /\ Abs(v.level_of_detail - exact) <= 1
                      /\ (nodes[v.id] < Pow2(24) /\ area[1] % (4 * area[2]) = 0) =>
                             v.level_of_detail = exact
               /\ (query.use_lod = "Yes" /\ area = PosInf) => v.level_of_detail = 1

\* With LOD on, a call returned a node subsampled with a stride above 1 and
\* a node whose quotient is below 1 and was raised to 1.
C3_Witness ==
    /\ pc = "visited"
    /\ query.use_lod = "Yes"
    /\ \E i \in 1..Len(visible) : visible[i].level_of_detail >= 2
    /\ \E i \in 1..Len(visible) :
          /\ IsFinite(Area(visible[i]))
          /\ 4 * nodes[visible[i].id] * Area(visible[i])[2] < Area(visible[i])[1]
          /\ visible[i].level_of_detail = 1

Count(s, x) == Cardinality({i \in 1..Len(s) : s[i] = x})
IsPermutation(s, t) ==
    /\ Len(s) = Len(t)
    /\ \A x \in Range(s) \cup Range(t) : Count(s, x) = Count(t, x)
FGe(a, b) == ~IsNaN(a) /\ ~IsNaN(b) /\ ~FLt(a, b)
SortedByArea(v) == \A i \in 1..(Len(v) - 1) : FGe(Area(v[i]), Area(v[i + 1]))

\* C4: the list get_visible_nodes returns is in non-increasing order of
\* projected area and is a permutation of the nodes the traversal collected.
C4_SortedPermutation ==
    [][(pc = "visit" /\ pc' = "visited") =>
          (SortedByArea(visible') /\ IsPermutation(visible, visible'))]_vars

\* A returned list in which a node of larger finite area precedes a node of
\* smaller area that the traversal collected before it.
C4_Witness ==
    /\ pc = "visited"
    /\ \E i, j \in 1..Len(visible) :
          /\ i < j
          /\ IsFinite(Area(visible[i])) /\ IsFinite(Area(visible[j]))
          /\ FLt(Area(visible[j]), Area(visible[i]))
          /\ IndexIn(examined, visible[i].id) > IndexIn(examined, visible[j].id)

CeilDiv(n, l) == (n + l - 1) \div l
Retained(k) == CeilDiv(from_disk(requests[k].id).len, requests[k].level_of_detail)
RECURSIVE RecordStart(_)
RecordStart(k) ==
    IF k = 1 THEN 0 ELSE RecordStart(k - 1) + 4 + NUM_BYTES_PER_POINT * Retained(k - 1)
RECURSIVE SumRetained(_)
SumRetained(k) == IF k = 0 THEN 0 ELSE SumRetained(k - 1) + Retained(k)
BytesAt(from, n) == SubSeq(rv, from + 1, from + n)
CallReadable ==
    \A k \in 1..Len(requests) :
        requests[k].level_of_detail >= 1 /\ from_disk(requests[k].id).ok

\* C5: a call of get_nodes_as_binary_blob whose requests have positive
\* strides and readable nodes returns Ok; the buffer returned is
\* 4 * requests + 16 * count bytes long, the count being the sum of the
\* requests' retained counts ceil(N / L); no requests give (0, empty).
C5_BlobLength ==
    /\ (InBlob /\ CallReadable) => pc \in {"blob", "blobbed"}
    /\ pc = "blobbed" =>
          /\ Len(rv) = 4 * Len(requests) + NUM_BYTES_PER_POINT * num_points
          /\ num_points = SumRetained(Len(requests))
          /\ requests = <<>> => (num_points = 0 /\ rv = <<>>)

\* C6: for a node of N points and a stride L >= 1 the record holds exactly
\* ceil(N / L) points, its length prefix is 16 * ceil(N / L), and the write
\* cursor ends at the end of the record, never short of it and never past.
C6_RetainedCount ==
    /\ InBlob =>
          \A k \in 1..Len(records) :
              /\ records[k].sized = Retained(k)
              /\ records[k].cursor = records[k].start + 4 + NUM_BYTES_PER_POINT * Retained(k)
              /\ pc # "bloberr" =>
                     BytesAt(records[k].start, 4) = U32LE(NUM_BYTES_PER_POINT * Retained(k))
    /\ pc = "blob_panic" => requests[ri].level_of_detail < 1

\* C7: the buffer holds one record per request, in request order; a record
\* is its length, then the positions of all its retained points, then
\* their colours in the same order, each colour ending in the byte 255.
C7_Layout ==
    pc \in {"blob", "blobbed"} =>
        /\ \A k \in 1..(ri - 1) :
              LET id == requests[k].id
                  lod == requests[k].level_of_detail
                  start == RecordStart(k)
                  n == Retained(k)
              IN /\ start + 4 + NUM_BYTES_PER_POINT * n <= Len(rv)
                 /\ \A i \in 0..(n - 1) :
                       LET pt == PointAt(id, i * lod)
                       IN /\ BytesAt(start + 4 + 12 * i, 12) =
                                F32LE(pt.position[1]) \o F32LE(pt.position[2]) \o F32LE(pt.position[3])
                          /\ BytesAt(start + 4 + 12 * n + 4 * i, 4) = <<pt.r, pt.g, pt.b, 255>>
        /\ Len(rv) = RecordStart(ri)

IsNodeFile(e) == e.kind = "file" /\ StartsWith(e.name, <<"r">>) /\ EndsWith(e.name, XYZ)

\* C8: once Octree::new has returned Ok, every key of the node mapping is
\* the id of a regular file named like a node file: "r...", ".xyz".
C8_OnlyNodeFiles ==
    pc = "ready" =>
        \A k \in DOMAIN nodes :
            \E e \in entries : IsNodeFile(e) /\ NodeIdFromString(FileStem(e.name)) = k

\* C9: a file that cannot be read during the scan (the walk fails on it or
\* its metadata cannot be read) is skipped: Octree::new does not panic,
\* the node is absent from the mapping and every readable node file is in it.
C9_ScanErrorsSkipped ==
    /\ pc # "new_panic"
    /\ pc = "ready" =>
          \A e \in entries :
              /\ (IsNodeFile(e) /\ e.walk_ok /\ e.stat_ok) => FileStem(e.name) \in DOMAIN nodes
              /\ ~(e.walk_ok /\ e.stat_ok) => FileStem(e.name) \notin DOMAIN nodes

C10_Bounded ==
    InVisit =>
        /\ NoDup(examined)
        /\ NoDup([i \in 1..Len(visible) |-> visible[i].id])
        /\ Len(examined) <= 1 + NUM_CHILDREN * Len(visible)
        /\ Len(visible) <= Cardinality(DOMAIN nodes)
        /\ pc # "visit" => open = <<>>

\* C10: the loop of get_visible_nodes ends: every iteration examines one
\* more id, at most 1 + 8 * (visible nodes) ids are ever examined, the
\* visible nodes being distinct keys of the finite mapping, and the loop is
\* left once the open stack is empty; no id is examined twice and none is
\* returned twice.
C10_Terminates ==
    [][/\ C10_Bounded'
       /\ (pc = "visit" /\ open # <<>>) =>
              (pc' = "visit" /\ Len(examined') = Len(examined) + 1)
       /\ (pc = "visit" /\ open = <<>>) => pc' \in {"visited", "visit_panic"}]_vars

\* A call that returned three nodes after examining each of their children.
C10_Witness ==
    /\ pc = "visited"
    /\ Len(visible) >= 3
    /\ Len(examined) = 1 + NUM_CHILDREN * Len(visible)

====
